---- MODULE Spec2Model ----
(***************************************************************************)
(* Model of the conversational analytics endpoint of ishre/ecommerce-agent *)
(* (src/app/api/ask/route.ts): the payload helpers (safeJSONParse,         *)
(* cleanForLLM, limitPayload), the classifier, the user resolver, the      *)
(* profile aggregator with its question hydrator, and the streaming POST   *)
(* handler.                                                                *)
(***************************************************************************)
EXTENDS Integers, Sequences, FiniteSets, TLC

(***************************************************************************)
(* Bounds of the model.                                                    *)
(***************************************************************************)
\* the maxItems handed to limitPayload, scaled down from the endpoint's 50
MaxItems == 2
\* arrays of the enumerated payloads hold up to MaxItems + ExtraLen items
ExtraLen == 2

(***************************************************************************)
(* JSON values.  Every value is a record [t, s, n, c]: t is the type tag,  *)
(* s the text of a string (or the hex text of a typed ObjectId), n the     *)
(* number, c the entries [k, v] of an array (k = "") or of an object.      *)
(***************************************************************************)
Null == [t |-> "null", s |-> "", n |-> 0, c |-> <<>>]
Undefined == [t |-> "undefined", s |-> "", n |-> 0, c |-> <<>>]
Str(x) == [t |-> "str", s |-> x, n |-> 0, c |-> <<>>]
Num(x) == [t |-> "num", s |-> "", n |-> x, c |-> <<>>]
Bool(b) == [t |-> "bool", s |-> "", n |-> IF b THEN 1 ELSE 0, c |-> <<>>]
\* a driver ObjectId instance (it has toJSON/toHexString)
Oid(x) == [t |-> "oid", s |-> x, n |-> 0, c |-> <<>>]
Entry(key, val) == [k |-> key, v |-> val]
Arr(vals) == [t |-> "arr", s |-> "", n |-> 0,
              c |-> [i \in 1..Len(vals) |-> Entry("", vals[i])]]
Obj(entries) == [t |-> "obj", s |-> "", n |-> 0, c |-> entries]
Obj1(k1, v1) == Obj(<<Entry(k1, v1)>>)
Obj2(k1, v1, k2, v2) == Obj(<<Entry(k1, v1), Entry(k2, v2)>>)
Repeat(val, count) == [i \in 1..count |-> val]

\* JavaScript truthiness: !v holds of null, undefined, false, 0 and ""
\* a truthiness under which the empty string counts as a value
Falsy_EmptyStringTruthy(v) ==
    \/ v.t \in {"null", "undefined"}
    \/ v.t = "bool" /\ v.n = 0
    \/ v.t = "num" /\ v.n = 0
Falsy(v) ==
    \/ v.t \in {"null", "undefined"}
    \/ v.t = "bool" /\ v.n = 0
    \/ v.t = "num" /\ v.n = 0
    \/ v.t = "str" /\ v.s = ""

HasKey(v, key) == v.t = "obj" /\ \E i \in 1..Len(v.c) : v.c[i].k = key
Get(v, key) ==
    IF HasKey(v, key)
    THEN v.c[CHOOSE i \in 1..Len(v.c) : v.c[i].k = key].v
    ELSE Undefined

(***************************************************************************)
(* cleanForLLM: JSON.parse(JSON.stringify(obj, replacer)).                 *)
(***************************************************************************)
PasswordKeys == {"password", "passwordResetToken"}
HeavyKeys == {"html", "css", "video", "pdfLink", "otherFile", "body",
              "resumeFileUrl", "profileImage"}

\* what JSON.stringify hands to the replacer: toJSON() has run already
ToJSON(v) == IF v.t = "oid" THEN Str(v.s) ELSE v

\* the replacer (k, v) => ... of cleanForLLM; Undefined stands for undefined
Replacer(k, v) ==
    IF Falsy(v) THEN v
    ELSE IF k \in PasswordKeys THEN Undefined
    ELSE IF k \in HeavyKeys THEN Undefined
    ELSE IF v.t = "obj" /\ HasKey(v, "$oid") /\ Get(v, "$oid").t = "str"
         THEN Str(Get(v, "$oid").s)
    ELSE IF v.t = "obj" /\ HasKey(v, "_bsontype")
            /\ Get(v, "_bsontype") = Str("ObjectID")
         THEN Str("[object Object]")
    ELSE v

RECURSIVE SerializeJSONProperty(_, _)
\* JSON.stringify's property serialisation followed by JSON.parse: the
\* replaced value, its children serialised in turn; an undefined array item
\* becomes null and an undefined object property is dropped
SerializeJSONProperty(k, v) ==
    LET r == Replacer(k, ToJSON(v)) IN
    IF r.t = "arr"
    THEN [r EXCEPT !.c =
            [i \in 1..Len(r.c) |->
                LET e == SerializeJSONProperty("", r.c[i].v) IN
                Entry("", IF e.t = "undefined" THEN Null ELSE e)]]
    ELSE IF r.t = "obj"
    THEN [r EXCEPT !.c =
            SelectSeq([i \in 1..Len(r.c) |->
                          Entry(r.c[i].k, SerializeJSONProperty(r.c[i].k, r.c[i].v))],
                      LAMBDA e : e.v.t # "undefined")]
    ELSE r

cleanForLLM(obj) == SerializeJSONProperty("", obj)

(***************************************************************************)
(* limitPayload                                                            *)
(***************************************************************************)
Slice(v, maxItems) ==
    [v EXCEPT !.c = SubSeq(v.c, 1, IF Len(v.c) < maxItems THEN Len(v.c) ELSE maxItems)]

\* a bounding that keeps maxItems items after the first one
limitPayload_SkipFirst(obj, maxItems) ==
    LET Cut(a) == [a EXCEPT !.c = SubSeq(a.c, 2, IF Len(a.c) < maxItems + 1 THEN Len(a.c) ELSE maxItems + 1)] IN
    IF obj.t = "arr" THEN Cut(obj)
    ELSE IF obj.t = "obj"
    THEN [obj EXCEPT !.c =
            [i \in 1..Len(obj.c) |->
                IF obj.c[i].v.t = "arr"
                THEN Entry(obj.c[i].k, Cut(obj.c[i].v))
                ELSE obj.c[i]]]
    ELSE obj
limitPayload(obj, maxItems) ==
    IF obj.t = "arr" THEN Slice(obj, maxItems)
    ELSE IF obj.t = "obj"
    THEN [obj EXCEPT !.c =
            [i \in 1..Len(obj.c) |->
                IF obj.c[i].v.t = "arr"
                THEN Entry(obj.c[i].k, Slice(obj.c[i].v, maxItems))
                ELSE obj.c[i]]]
    ELSE obj

(***************************************************************************)
(* safeJSONParse.  A text of the generative backend is a sequence of       *)
(* tokens [p, k, v]: p is the token's kind ("fence" a code fence, "{", "}", *)
(* ",", "prose" any non-JSON text, "lit" a JSON scalar literal, "kv" a     *)
(* "key": value member), k the member's key and v the member's or the     *)
(* literal's value.                                                        *)
(***************************************************************************)
Tok(kind) == [p |-> kind, k |-> "", v |-> Null]
Lit(val) == [p |-> "lit", k |-> "", v |-> val]
KV(key, val) == [p |-> "kv", k |-> key, v |-> val]

\* the two replace() calls made when the text starts with a code fence: the
\* first fence goes, and a fence at the very end
StripFences(text) ==
    IF Len(text) > 0 /\ text[1].p = "fence"
    THEN LET rest == Tail(text) IN
         IF Len(rest) > 0 /\ rest[Len(rest)].p = "fence"
         THEN SubSeq(rest, 1, Len(rest) - 1)
         ELSE rest
    ELSE text

\* cleaned.slice(first, last + 1) for the first "{" and the last "}"
BraceSpan(text) ==
    LET opens == {i \in 1..Len(text) : text[i].p = "{"}
        closes == {i \in 1..Len(text) : text[i].p = "}"}
    IN  IF opens # {} /\ closes # {}
        THEN LET first == CHOOSE i \in opens : \A j \in opens : i <= j
                 last == CHOOSE i \in closes : \A j \in closes : i >= j
             IN  IF last > first THEN SubSeq(text, first, last) ELSE text
        ELSE text

\* cleaned.replace(/,\s*}/g, "}"): a comma right before a closing brace goes
DropTrailingCommas(text) ==
    LET keep == {i \in 1..Len(text) :
                    ~(text[i].p = "," /\ i < Len(text) /\ text[i + 1].p = "}")}
        F[i \in 0..Len(text)] ==
            IF i = 0 THEN <<>>
            ELSE IF i \in keep THEN Append(F[i - 1], text[i]) ELSE F[i - 1]
    IN  F[Len(text)]

\* the members of { m , m , ... }: kv tokens at the odd places, commas between
IsObjectText(text) ==
    /\ Len(text) >= 2
    /\ text[1].p = "{"
    /\ text[Len(text)].p = "}"
    /\ LET inner == SubSeq(text, 2, Len(text) - 1) IN
       \/ inner = <<>>
       \/ /\ Len(inner) % 2 = 1
          /\ \A i \in 1..Len(inner) :
                inner[i].p = (IF i % 2 = 1 THEN "kv" ELSE ",")

\* JSON.parse; Undefined stands for the SyntaxError it throws
JSONParse(text) ==
    IF IsObjectText(text)
    THEN LET inner == SubSeq(text, 2, Len(text) - 1) IN
         Obj([i \in 1..((Len(inner) + 1) \div 2) |->
                 Entry(inner[2 * i - 1].k, inner[2 * i - 1].v)])
    ELSE IF Len(text) = 1 /\ text[1].p = "lit" THEN text[1].v
    ELSE Undefined

\* null (here Null) when JSON.parse throws
safeJSONParse(text) ==
    LET parsed == JSONParse(DropTrailingCommas(BraceSpan(StripFences(text)))) IN
    IF parsed.t = "undefined" THEN Null ELSE parsed

(***************************************************************************)
(* classifyQuestion, from the text of the backend's response on.           *)
(***************************************************************************)
IntentType == {"student-profile", "student-performance", "interview-history",
               "course-progress", "leaderboard", "candidate-recommendation",
               "generic"}

\* x || y
OrElse(x, y) == IF Falsy(x) THEN y ELSE x

\* the default of topK
DefaultTopK == 5

GenericIntent ==
    [intent |-> Str("generic"), candidateName |-> Undefined,
     candidateEmailOrPhone |-> Undefined, jobDescription |-> Undefined,
     topK |-> Undefined]

\* classifyQuestion defaulting a missing intent but keeping the parsed slots
classifyQuestion_KeepSlots(text) ==
    LET raw == IF text = <<>> THEN <<Tok("{"), Tok("}")>> ELSE text
        parsed == safeJSONParse(raw)
    IN  IF Falsy(parsed)
        THEN GenericIntent
        ELSE [intent |-> OrElse(Get(parsed, "intent"), Str("generic")),
              candidateName |-> OrElse(Get(parsed, "candidateName"), Undefined),
              candidateEmailOrPhone |->
                  OrElse(Get(parsed, "candidateEmailOrPhone"), Undefined),
              jobDescription |-> OrElse(Get(parsed, "jobDescription"), Undefined),
              topK |-> OrElse(Get(parsed, "topK"), Num(DefaultTopK))]

\* text is the response's candidates[0].content.parts[0].text, <<>> when the
\* response carries none
classifyQuestion(text) ==
    LET raw == IF text = <<>> THEN <<Tok("{"), Tok("}")>> ELSE text
        parsed == safeJSONParse(raw)
    IN  IF Falsy(parsed) \/ Falsy(Get(parsed, "intent"))
        THEN GenericIntent
        ELSE [intent |-> Get(parsed, "intent"),
              candidateName |-> OrElse(Get(parsed, "candidateName"), Undefined),
              candidateEmailOrPhone |->
                  OrElse(Get(parsed, "candidateEmailOrPhone"), Undefined),
              jobDescription |-> OrElse(Get(parsed, "jobDescription"), Undefined),
              topK |-> OrElse(Get(parsed, "topK"), Num(DefaultTopK))]

(***************************************************************************)
(* Strings as the RegExp engine sees them.  A name is a string of the      *)
(* model; CharsOf gives its characters.  The names of the model use the    *)
(* letters, the space, and the metacharacters "." and "(".                 *)
(***************************************************************************)
CharsOf(str) ==
    CASE str = "ann" -> <<"a", "n", "n">>
      [] str = "Ann" -> <<"A", "n", "n">>
      [] str = "bo b" -> <<"b", "o", " ", "b">>
      [] str = "bo b c" -> <<"b", "o", " ", "b", " ", "c">>
      [] str = "a.b" -> <<"a", ".", "b">>
      [] str = "axb" -> <<"a", "x", "b">>
      [] str = "w(" -> <<"w", "(">>
      [] str = "zed" -> <<"z", "e", "d">>
      [] str = "cy" -> <<"c", "y">>
      [] str = "dd e" -> <<"d", "d", " ", "e">>
      [] str = "dd e f" -> <<"d", "d", " ", "e", " ", "f">>
      [] OTHER -> <<>>

\* the characters of the class [.*+?^${}()|[\]\\]
MetaChars == {".", "*", "+", "?", "^", "$", "{", "}", "(", ")", "|", "[", "]", "\\"}

\* ci.candidateName.replace(/[.*+?^${}()|[\]\\]/g, "")
StripMeta(chars) == SelectSeq(chars, LAMBDA ch : ch \notin MetaChars)

\* name.split(" ").slice(0, 2).join(" "): the text before the second space
FirstTwoWords(chars) ==
    LET spaces == {i \in 1..Len(chars) : chars[i] = " "}
        second == {i \in spaces : Cardinality({j \in spaces : j < i}) = 1}
    IN  IF second = {} THEN chars
        ELSE SubSeq(chars, 1, (CHOOSE i \in second : TRUE) - 1)

\* name.trim()
Trim(chars) ==
    LET solid == {i \in 1..Len(chars) : chars[i] # " "} IN
    IF solid = {} THEN <<>>
    ELSE SubSeq(chars, CHOOSE i \in solid : \A j \in solid : i <= j,
                       CHOOSE i \in solid : \A j \in solid : i >= j)

\* the nesting depth of the parentheses after each character
ParenDepth(chars) ==
    LET D[i \in 0..Len(chars)] ==
            IF i = 0 THEN 0
            ELSE D[i - 1] + (IF chars[i] = "(" THEN 1
                             ELSE IF chars[i] = ")" THEN -1 ELSE 0)
    IN  D

\* new RegExp(source, "i") throws a SyntaxError on an unterminated group or
\* an unmatched ")"
RegExpThrows(source) ==
    \/ ParenDepth(source)[Len(source)] # 0
    \/ \E i \in 1..Len(source) : ParenDepth(source)[i] < 0

Lower(ch) == IF ch = "A" THEN "a" ELSE ch

\* rx.test(text) for a source that compiles, with the i flag: "." matches any
\* character, parentheses only group, every other character matches itself
RegExpTest(source, text) ==
    LET pat == SelectSeq(source, LAMBDA ch : ch \notin {"(", ")"}) IN
    \E off \in 0..Len(text) :
        /\ off + Len(pat) <= Len(text)
        /\ \A i \in 1..Len(pat) :
              pat[i] = "." \/ Lower(pat[i]) = Lower(text[off + i])

\* { field: rx } matches a document whose field is a string the pattern finds
FieldMatches(source, field) == field # "" /\ RegExpTest(source, CharsOf(field))

(***************************************************************************)
(* Identifiers.  An id is stored either as a typed ObjectId or as a plain  *)
(* string; form "none" is a missing field.                                 *)
(***************************************************************************)
TypedId(x) == [form |-> "oid", val |-> x]
PlainId(x) == [form |-> "str", val |-> x]
NoId == [form |-> "none", val |-> ""]

\* the strings that stand for 24-digit hex strings
HexStrings == {"o1", "o2", "o4", "o5", "i1", "i2", "q1", "q2", "q9"}
                \cup {"d1", "d2", "d3", "d4", "d5", "d6", "d7", "d8", "d9", "d10", "d11"}
\* ObjectId.isValid(id)
IsValidObjectId(id) == id \in HexStrings

\* Limit with the $limit stage left out
Limit_Unbounded(rows, maxHits) == rows

\* the first maxHits items: the $limit stage
Limit(rows, maxHits) == SubSeq(rows, 1, IF Len(rows) < maxHits THEN Len(rows) ELSE maxHits)

\* the places of the documents of a collection that a $match keeps
Matching(coll, keep) ==
    LET F[i \in 0..Len(coll)] ==
            IF i = 0 THEN <<>>
            ELSE IF keep[i] THEN Append(F[i - 1], i) ELSE F[i - 1]
    IN  F[Len(coll)]

(***************************************************************************)
(* The document store: the collections the endpoint reads, in the store's  *)
(* natural order.  A missing string field is "".                           *)
(***************************************************************************)
User(id, nm, mail, phone) ==
    [_id |-> id, name |-> nm, firstname |-> "", lastname |-> "",
     email |-> mail, phoneNumber |-> phone]
\* more users of one name than the resolver's maxHits
NamesakeIds == <<"d1", "d2", "d3", "d4", "d5", "d6", "d7", "d8", "d9", "d10", "d11">>
Namesakes == [i \in 1..Len(NamesakeIds) |-> User(TypedId(NamesakeIds[i]), "dd e", "", "")]
Users ==
    << User(TypedId("o1"), "ann", "e1", "p1"),
       User(TypedId("o2"), "bo b", "e2", ""),
       User(PlainId("s3"), "a.b", "", ""),
       User(PlainId("o4"), "Ann", "e4", ""),
       User(TypedId("o5"), "axb", "e5", "") >>
    \o Namesakes

Resume(uid, mail, first) ==
    [user |-> uid, contactEmail |-> mail, contactFirstName |-> first,
     contactLastName |-> "", contactNumber |-> "", name |-> "",
     userEmail |-> "", email |-> ""]
TrailResumes ==
    << Resume(TypedId("o1"), "e1", "ann"),
       Resume(PlainId("o2"), "e9", "zed"),
       Resume(PlainId("s3"), "", "cy"),
       Resume(NoId, "e7", "zed"),
       Resume(PlainId("o4"), "e8", ""),
       Resume(NoId, "e6", "") >>
ResumeWithAis ==
    << Resume(PlainId("o1"), "", ""),
       Resume(NoId, "e2", "") >>

\* a reference to a question inside an interview: a plain string, or an
\* object that carries the id under _id, questionId or id
QRef(form, id) == [form |-> form, val |-> id]

Applications ==
    << [interviewee |-> TypedId("o1"), interviewId |-> TypedId("i1")],
       [interviewee |-> TypedId("o2"), interviewId |-> PlainId("i2")],
       [interviewee |-> PlainId("o4"), interviewId |-> PlainId("v3")] >>
Interviews ==
    << [_id |-> TypedId("i1"), interview_id |-> "",
        interviewquestions |-> <<QRef("string", "q1"), QRef("_id", "q2"),
                                 QRef("questionId", "k3"), QRef("id", "q1")>>],
       [_id |-> TypedId("i2"), interview_id |-> "", interviewquestions |-> <<>>],
       [_id |-> PlainId("v3"), interview_id |-> "v3",
        interviewquestions |-> <<QRef("id", "k3")>>] >>
InterviewResults ==
    << [attemptedby_id |-> TypedId("o1"), results |-> <<"q1", "">>],
       [attemptedby_id |-> PlainId("s3"), results |-> <<"k3">>] >>
InterviewQuestions ==
    << [_id |-> TypedId("q1"), questionId |-> ""],
       [_id |-> TypedId("q2"), questionId |-> "k2"],
       [_id |-> PlainId("k3"), questionId |-> "k3"],
       [_id |-> TypedId("q9"), questionId |-> "k9"] >>

\* the collections matched on one owner field only
JrsAttempts ==
    << [user |-> TypedId("o1"), overall |-> 70],
       [user |-> PlainId("s3"), overall |-> 40],
       [user |-> TypedId("o1"), overall |-> 50] >>
    \o [i \in 1..Len(NamesakeIds) |-> [user |-> TypedId(NamesakeIds[i]), overall |-> i]]
PracticeHistories == << [user |-> PlainId("o1")], [user |-> TypedId("o2")] >>
ExamHistories == << [userId |-> TypedId("o1")] >>
ProgressTracks == << [userId |-> TypedId("o2")], [userId |-> PlainId("s3")] >>

(***************************************************************************)
(* resolveUsers.  ci is a ClassifiedIntent whose slots are JSON values;    *)
(* the results are sequences of places in Users.                           *)
(***************************************************************************)
\* the maxHits the endpoint passes
MaxHits == 10
\* the $limit of the trailresumes lookup
ResumeScanLimit == 20

HasName(ci) == ~Falsy(ci.candidateName)
HasIdentifier(ci) == ~Falsy(ci.candidateEmailOrPhone)
\* the source of rx in resolveUsers
NamePattern(ci) == StripMeta(CharsOf(ci.candidateName.s))

\* UsersByClauses with the identifier clauses tried before the name clauses
UsersByClauses_InOrder(ci, maxHits) ==
    LET byId == Matching(Users, [i \in DOMAIN Users |-> LET u == Users[i] IN
                    /\ HasIdentifier(ci)
                    /\ \/ u.email = ci.candidateEmailOrPhone.s
                       \/ u.phoneNumber = ci.candidateEmailOrPhone.s])
        byName == Matching(Users, [i \in DOMAIN Users |-> LET u == Users[i] IN
                    /\ HasName(ci)
                    /\ \/ FieldMatches(NamePattern(ci), u.name)
                       \/ FieldMatches(NamePattern(ci), u.firstname)
                       \/ FieldMatches(NamePattern(ci), u.lastname)])
    IN  Limit(IF Len(byId) > 0 THEN byId ELSE byName, maxHits)

\* { $match: { $or: matchClauses } }, { $limit: maxHits } on users
UsersByClauses(ci, maxHits) ==
    Limit(Matching(Users, [i \in DOMAIN Users |-> LET u == Users[i] IN
            \/ /\ HasIdentifier(ci)
               /\ \/ u.email = ci.candidateEmailOrPhone.s
                  \/ u.phoneNumber = ci.candidateEmailOrPhone.s
            \/ /\ HasName(ci)
               /\ \/ FieldMatches(NamePattern(ci), u.name)
                  \/ FieldMatches(NamePattern(ci), u.firstname)
                  \/ FieldMatches(NamePattern(ci), u.lastname)]),
          maxHits)

\* { $match: { $or: or2 } }, { $limit: 20 } on trailresumes
ResumesByClauses(ci) ==
    Limit(Matching(TrailResumes, [i \in DOMAIN TrailResumes |-> LET d == TrailResumes[i] IN
            \/ /\ HasName(ci)
               /\ \/ FieldMatches(NamePattern(ci), d.contactFirstName)
                  \/ FieldMatches(NamePattern(ci), d.contactLastName)
                  \/ FieldMatches(NamePattern(ci), d.name)
            \/ /\ HasIdentifier(ci)
               /\ \/ d.contactEmail = ci.candidateEmailOrPhone.s
                  \/ d.contactNumber = ci.candidateEmailOrPhone.s]),
          ResumeScanLimit)

\* rows.map(d => ...).filter(id => id !== null): the user ids as strings
CollectedIds(rows) ==
    LET F[i \in 0..Len(rows)] ==
            IF i = 0 THEN <<>>
            ELSE LET u == TrailResumes[rows[i]].user IN
                 IF u.form = "none" \/ u.val = "" THEN F[i - 1]
                 ELSE Append(F[i - 1], u.val)
    IN  F[Len(rows)]

Range(seq) == {seq[i] : i \in 1..Len(seq)}

\* { _id: { $in: objectIds } } or { _id: { $in: stringIds } }, { $limit: maxHits }
UsersByIds(ids, maxHits) ==
    LET objectIds == {id \in Range(ids) : IsValidObjectId(id)}
        stringIds == {id \in Range(ids) : ~IsValidObjectId(id)}
    IN  Limit(Matching(Users, [i \in DOMAIN Users |-> LET u == Users[i] IN
                \/ u._id.form = "oid" /\ u._id.val \in objectIds
                \/ u._id.form = "str" /\ u._id.val \in stringIds]),
              maxHits)

\* const rx = new RegExp(name.split(" ").slice(0, 2).join(" "), "i") of POST
FuzzyPattern(ci) == FirstTwoWords(CharsOf(ci.candidateName.s))
\* the substring fallback without its $limit stage
UsersByFuzzyName_Unbounded(ci) ==
    Matching(Users, [i \in DOMAIN Users |-> LET u == Users[i] IN FieldMatches(FuzzyPattern(ci), u.name)])
\* [{ $match: { name: rx } }, { $limit: 10 }] on users
UsersByFuzzyName(ci) ==
    Limit(Matching(Users, [i \in DOMAIN Users |-> LET u == Users[i] IN FieldMatches(FuzzyPattern(ci), u.name)]), MaxHits)

(***************************************************************************)
(* fetchFullProfileForUsers: the nine related-record queries made for one  *)
(* user, in the order of the code.  u is a place in Users; the rows are    *)
(* places in the collection read.                                          *)
(***************************************************************************)
FetchSteps == <<"trailresumes", "resumewithais", "jrsattempts",
                "interview_results", "appliedcandidates", "interviews",
                "practicehistories", "examhistories", "progresstracks">>
\* the $limit of each query
ResumeLimit == 5
JrsLimit == 20
InterviewResultLimit == 50
ApplicationLimit == 50
InterviewLimit == 50
PracticeLimit == 20
ExamLimit == 20
ProgressLimit == 50

\* String(u._id)
UidStr(u) == Users[u]._id.val

\* [{ f: new ObjectId(uidStr) } when uidStr is valid, { f: uidStr }]
OwnerMatches(owner, u) ==
    \/ IsValidObjectId(UidStr(u)) /\ owner = TypedId(UidStr(u))
    \/ owner = PlainId(UidStr(u))

\* resumeMatches.length ? { $or: resumeMatches } : {}
ResumeMatches(d, u) ==
    LET byId == IsValidObjectId(UidStr(u))
        byEmail == Users[u].email # ""
    IN  IF ~byId /\ ~byEmail THEN TRUE
        ELSE \/ byId /\ (d.user = TypedId(UidStr(u)) \/ d.user = PlainId(UidStr(u)))
             \/ byEmail /\ Users[u].email \in {d.contactEmail, d.userEmail, d.email}

\* the strings collected from application.interviewId
InterviewIds(applications) ==
    {Applications[applications[i]].interviewId.val : i \in 1..Len(applications)}
        \ {""}

\* interviewMatch.length ? { $or: interviewMatch } : {}
InterviewMatches(iv, applications) ==
    LET ivObjIds == {id \in InterviewIds(applications) : IsValidObjectId(id)}
        ivStringIds == {id \in InterviewIds(applications) : ~IsValidObjectId(id)}
    IN  IF ivObjIds = {} /\ ivStringIds = {} THEN TRUE
        ELSE \/ iv._id.form = "oid" /\ iv._id.val \in ivObjIds
             \/ iv._id.form = "str" /\ iv._id.val \in ivStringIds
             \/ iv.interview_id # "" /\ iv.interview_id \in ivStringIds

\* the rows of the query of the given step for user u; applications are the
\* rows the appliedcandidates step returned
FetchRows(step, u, applications) ==
    CASE step = "trailresumes" ->
            Limit(Matching(TrailResumes, [i \in DOMAIN TrailResumes |-> LET d == TrailResumes[i] IN ResumeMatches(d, u)]), ResumeLimit)
      [] step = "resumewithais" ->
            Limit(Matching(ResumeWithAis, [i \in DOMAIN ResumeWithAis |-> LET d == ResumeWithAis[i] IN ResumeMatches(d, u)]), ResumeLimit)
      [] step = "jrsattempts" ->
            Limit(Matching(JrsAttempts, [i \in DOMAIN JrsAttempts |-> LET d == JrsAttempts[i] IN OwnerMatches(d.user, u)]), JrsLimit)
      [] step = "interview_results" ->
            Limit(Matching(InterviewResults, [i \in DOMAIN InterviewResults |->
                        LET d == InterviewResults[i] IN OwnerMatches(d.attemptedby_id, u)]),
                  InterviewResultLimit)
      [] step = "appliedcandidates" ->
            Limit(Matching(Applications, [i \in DOMAIN Applications |-> LET d == Applications[i] IN OwnerMatches(d.interviewee, u)]),
                  ApplicationLimit)
      [] step = "interviews" ->
            Limit(Matching(Interviews, [i \in DOMAIN Interviews |-> LET d == Interviews[i] IN InterviewMatches(d, applications)]),
                  InterviewLimit)
      [] step = "practicehistories" ->
            Limit(Matching(PracticeHistories, [i \in DOMAIN PracticeHistories |-> LET d == PracticeHistories[i] IN OwnerMatches(d.user, u)]),
                  PracticeLimit)
      [] step = "examhistories" ->
            Limit(Matching(ExamHistories, [i \in DOMAIN ExamHistories |-> LET d == ExamHistories[i] IN OwnerMatches(d.userId, u)]),
                  ExamLimit)
      [] step = "progresstracks" ->
            Limit(Matching(ProgressTracks, [i \in DOMAIN ProgressTracks |-> LET d == ProgressTracks[i] IN OwnerMatches(d.userId, u)]),
                  ProgressLimit)

\* the profile under construction for user u: one field per step, and the
\* interviewQuestionDetails the hydrator attaches to each interview
EmptyProfile(u) ==
    [user |-> u,
     rows |-> [st \in Range(FetchSteps) |-> <<>>],
     interviewQuestionDetails |-> <<>>,
     hydrated |-> FALSE]

(***************************************************************************)
(* fetchCandidatePoolForJob: one aggregation on users.  The rows are       *)
(* places in Users.                                                        *)
(***************************************************************************)
\* the least $limit of the pool
PoolFloor == 50
\* Math.max(topK, 50)
PoolLimit(topK) == IF topK > PoolFloor THEN topK ELSE PoolFloor
\* classified.topK || 5 of POST
PoolTopK(ci) == IF Falsy(ci.topK) THEN DefaultTopK ELSE ci.topK.n

\* hasResume: the $lookup on trailresumes, user equal to _id or to its string
HasResume(u) ==
    \E i \in DOMAIN TrailResumes :
        \/ TrailResumes[i].user = Users[u]._id
        \/ TrailResumes[i].user = PlainId(Users[u]._id.val)
\* the $lookup on jrsattempts: user equal to _id, form included
JrsOf(u) == {i \in DOMAIN JrsAttempts : JrsAttempts[i].user = Users[u]._id}
RECURSIVE SumOverall(_)
SumOverall(S) ==
    IF S = {} THEN 0
    ELSE LET i == CHOOSE x \in S : TRUE
         IN  JrsAttempts[i].overall + SumOverall(S \ {i})
\* avgJrs: the $avg of scores.overall (whole numbers here); -1 stands for
\* the null of a user without attempts, which a descending sort puts last
AvgJrs(u) ==
    IF JrsOf(u) = {} THEN -1 ELSE SumOverall(JrsOf(u)) \div Cardinality(JrsOf(u))
\* { $sort: { hasResume: -1, avgJrs: -1 } } may put u before v
PoolBefore(u, v) ==
    \/ HasResume(u) /\ ~HasResume(v)
    \/ HasResume(u) = HasResume(v) /\ AvgJrs(u) >= AvgJrs(v)
\* the orders the $sort can produce for the users of S: users with equal
\* keys come in any order
RECURSIVE PoolOrdersOf(_)
PoolOrdersOf(S) ==
    IF S = {} THEN {<<>>}
    ELSE UNION {{<<u>> \o p : p \in PoolOrdersOf(S \ {u})} :
                u \in {x \in S : \A y \in S : PoolBefore(x, y)}}
PoolOrders == PoolOrdersOf(DOMAIN Users)
\* the rows after { $limit: Math.max(topK, 50) }
CandidatePools(topK) == {Limit(p, PoolLimit(topK)) : p \in PoolOrders}

(***************************************************************************)
(* hydrateInterviewQuestionsForProfiles                                    *)
(***************************************************************************)
\* first pass: the ids a reference contributes (all three object forms)
RefId(q) == IF q.val = "" THEN {} ELSE {q.val}

QuestionIds(profiles) ==
    UNION {
        UNION { UNION {RefId(Interviews[p.rows["interviews"][i]].interviewquestions[j]) :
                        j \in 1..Len(Interviews[p.rows["interviews"][i]].interviewquestions)} :
                i \in 1..Len(p.rows["interviews"]) }
        \cup
        UNION { Range(InterviewResults[p.rows["interview_results"][i]].results) \ {""} :
                i \in 1..Len(p.rows["interview_results"]) }
        : p \in Range(profiles) }

\* the $match of the batched lookup: _id: { $in: objectIds } and
\* $or: [questionId in stringIds, _id in stringIds] are fields of ONE filter
QuestionsLookup(questionIds) ==
    LET objectIds == {id \in questionIds : IsValidObjectId(id)}
        stringIds == {id \in questionIds : ~IsValidObjectId(id)}
    IN  Matching(InterviewQuestions, [i \in DOMAIN InterviewQuestions |-> LET q == InterviewQuestions[i] IN
            /\ objectIds # {} => (q._id.form = "oid" /\ q._id.val \in objectIds)
            /\ stringIds # {} =>
                  \/ q.questionId # "" /\ q.questionId \in stringIds
                  \/ q._id.form = "str" /\ q._id.val \in stringIds])

\* byKey: the keys String(q._id) and q.questionId of the returned questions;
\* a later question replaces an earlier one under the same key
ByKeyDomain(questions) ==
    UNION {{InterviewQuestions[questions[i]]._id.val,
            InterviewQuestions[questions[i]].questionId} \ {""} :
           i \in 1..Len(questions)}
ByKey(questions, key) ==
    LET hits == {i \in 1..Len(questions) :
                    key \in {InterviewQuestions[questions[i]]._id.val,
                             InterviewQuestions[questions[i]].questionId}}
    IN  questions[CHOOSE i \in hits : \A j \in hits : i >= j]

\* second pass: the key of a reference (the id form is not looked at)
RefKey(q) == IF q.form \in {"string", "_id", "questionId"} THEN q.val ELSE ""

\* iv.interviewQuestionDetails = enriched
Enriched(iv, questions) ==
    LET refs == Interviews[iv].interviewquestions
        F[j \in 0..Len(refs)] ==
            IF j = 0 THEN <<>>
            ELSE IF RefKey(refs[j]) # "" /\ RefKey(refs[j]) \in ByKeyDomain(questions)
                 THEN Append(F[j - 1], ByKey(questions, RefKey(refs[j])))
                 ELSE F[j - 1]
    IN  F[Len(refs)]

Hydrated(profiles, questions) ==
    [i \in 1..Len(profiles) |->
        [profiles[i] EXCEPT
            !.interviewQuestionDetails =
                [j \in 1..Len(profiles[i].rows["interviews"]) |->
                    Enriched(profiles[i].rows["interviews"][j], questions)],
            !.hydrated = TRUE]]

(***************************************************************************)
(* The payloads the helpers are applied to.                                *)
(***************************************************************************)
Scalars == {Null, Str(""), Str("x"), Num(0), Bool(FALSE), Bool(TRUE), Oid("o1")}
PayloadKeys == {"password", "body", "$oid", "interviews"}
ArrLens == 0..(MaxItems + ExtraLen)

Wrap(S) ==
    {Obj1(key, v) : key \in PayloadKeys, v \in S}
      \cup {Arr(Repeat(v, len)) : v \in S, len \in ArrLens}
Level1 == Scalars \cup Wrap(Scalars)
          \cup {Obj2("_bsontype", Str("ObjectID"), "id", Str("x")),
                Obj2("$oid", Str("x"), "password", Str("")),
                Obj2("name", Str("x"), "password", Str("x")),
                Obj2("name", Str("x"), "password", Str(""))}
Level2 == Level1 \cup Wrap(Level1)
Payloads == Level2 \cup Wrap(Level2 \ Level1)

(***************************************************************************)
(* What the collaborators of the endpoint can hand back.                   *)
(***************************************************************************)
\* values of the intent member: the seven intents and one string outside them
IntentValues == IntentType \cup {"foo", ""}
NameValues == {"ann", "a.b", "w(", "zed", "cy", "bo b c", "dd e", "dd e f"}
IdentifierValues == {"e2", "e9", "e8", "e4"}
Absent == "-"

\* the members separated by commas
Join(members) ==
    [i \in 1..(IF Len(members) = 0 THEN 0 ELSE 2 * Len(members) - 1) |->
        IF i % 2 = 1 THEN members[(i + 1) \div 2] ELSE Tok(",")]
Member(key, val) == IF val = Absent THEN <<>> ELSE <<KV(key, Str(val))>>
ObjectText(in, nm, id) ==
    <<Tok("{")>>
      \o Join(Member("intent", in) \o Member("candidateName", nm)
                \o Member("candidateEmailOrPhone", id))
      \o <<Tok("}")>>

PlainTexts ==
    {ObjectText(in, nm, id) : in \in IntentValues \cup {Absent},
                              nm \in NameValues \cup {Absent},
                              id \in IdentifierValues \cup {Absent}}
NoisyTexts ==
    LET good == ObjectText("leaderboard", Absent, Absent)
        inner == <<KV("intent", Str("student-profile")), Tok(","),
                   KV("candidateName", Str("ann"))>>
    IN  { <<Tok("fence")>> \o good \o <<Tok("fence")>>,
          <<Tok("prose")>> \o good \o <<Tok("prose")>>,
          <<Tok("{")>> \o inner \o <<Tok(","), Tok("}")>>,
          <<Tok("{")>> \o inner \o <<Tok(","), Tok(","), Tok("}")>>,
          <<Tok("{")>> \o inner,
          good \o good,
          <<Tok("prose")>>,
          <<Tok("fence")>>,
          <<Tok("fence"), Tok("prose"), Tok("fence")>>,
          <<Lit(Null)>>,
          <<Lit(Num(7))>>,
          <<Tok("{"), KV("intent", Num(0)), Tok("}")>>,
          <<Tok("{"), KV("intent", Str("leaderboard")), Tok(","),
            KV("topK", Num(3)), Tok("}")>>,
          <<Tok("{"), KV("intent", Str("candidate-recommendation")), Tok(","),
            KV("topK", Num(0)), Tok("}")>>,
          <<Tok("{"), KV("intent", Str("candidate-recommendation")), Tok(","),
            KV("topK", Num(3)), Tok("}")>>,
          <<Tok("{"), KV("intent", Str("candidate-recommendation")), Tok(","),
            KV("topK", Num(60)), Tok("}")>> }
\* <<>>: a response without candidates[0].content.parts[0].text
BackendTexts == PlainTexts \cup NoisyTexts \cup {<<>>}

\* the trimmed text of the explanation response; "" when it carries none
AnswerTexts == {"", "answer"}
FallbackAnswer == "Sorry, I could not generate a useful answer from the available data."

\* the texts of the visualization response
VizTexts ==
    { <<>>,
      <<Tok("{"), Tok("}")>>,
      <<Tok("{"), KV("type", Str("bar")), Tok("}")>>,
      <<Tok("fence"), Tok("{"), KV("type", Str("bar")), Tok("}"), Tok("fence")>>,
      <<Tok("prose"), Tok("{"), KV("type", Str("bar")), Tok("}")>>,
      <<Tok("prose")>> }

\* the try block around JSON.parse(rawViz): fences stripped, no brace search
ParseViz(text) ==
    LET parsed == IF text = <<>> THEN Obj(<<>>) ELSE JSONParse(StripFences(text)) IN
    IF parsed.t = "undefined" THEN Null ELSE parsed

Bodies ==
    {[parses |-> TRUE, question |-> q, visualMode |-> vm] :
        q \in {Str("q"), Str(""), Num(7), Undefined}, vm \in BOOLEAN}
      \cup {[parses |-> FALSE, question |-> Undefined, visualMode |-> FALSE]}

(***************************************************************************)
(* State.                                                                  *)
(***************************************************************************)
VARIABLES
    payload, cleaned, recleaned, limited, hpc,  \* the helpers applied to a payload
    pc,          \* the await the handler is suspended at, or how it ended
    body,        \* the request body
    events,      \* the events enqueued on the response stream
    cancelled,   \* the caller has gone away: the stream is cancelled
    rawText,     \* the text the classification call returned
    classified,  \* the ClassifiedIntent
    users,       \* the resolved users, places in Users
    out,         \* the profiles built so far
    cur,         \* the profile being built
    uidx, step,  \* the user and the query fetchFullProfileForUsers is at
    rawData,     \* which kind of rawData the fetch stage produced
    pool,        \* the rows fetchCandidatePoolForJob returned, places in Users
    calls,       \* the external calls issued, in order
    answer, vizSpec,
    err,         \* the exception the catch block of start() caught, "" if none
    client,      \* the module's shared MongoClient: "null" or "set"
    conn,        \* the connection of that client: none, pending, established, failed
    db,          \* the module's shared Db: "null" or "set"
    cpc,         \* where each caller of query() is
    returned     \* the connection state of the client getClient returned to each caller

hvars == <<payload, cleaned, recleaned, limited, hpc>>
cvars == <<client, conn, db, cpc, returned>>
pvars == <<pc, body, events, cancelled, rawText, classified, users, out, cur,
           uidx, step, rawData, pool, calls, answer, vizSpec, err>>
vars == <<payload, cleaned, recleaned, limited, hpc, pc, body, events, cancelled,
          rawText, classified, users, out, cur, uidx, step, rawData, pool, calls,
          answer, vizSpec, err, client, conn, db, cpc, returned>>

Ev(stage, text) == [stage |-> stage, text |-> text]
Gemini(target) == [kind |-> "gemini", target |-> target]
Query(target) == [kind |-> "query", target |-> target]

\* the concurrent callers of query()
MaxCallers == 3
Callers == 1..MaxCallers

\* let client = null; let db = null; no caller has called query() yet
ClientIdle ==
    /\ client = "null"
    /\ conn = "none"
    /\ db = "null"
    /\ cpc = [c \in Callers |-> "idle"]
    /\ returned = [c \in Callers |-> "none"]

HelperIdle ==
    /\ ClientIdle
    /\ payload = Undefined
    /\ cleaned = Undefined
    /\ recleaned = Undefined
    /\ limited = Undefined
    /\ hpc = "idle"

PipelineIdle ==
    /\ pc = "idle"
    /\ body = [parses |-> FALSE, question |-> Undefined, visualMode |-> FALSE]
    /\ events = <<>>
    /\ cancelled = FALSE
    /\ rawText = <<>>
    /\ classified = GenericIntent
    /\ users = <<>>
    /\ out = <<>>
    /\ cur = EmptyProfile(1)
    /\ uidx = 0
    /\ step = 0
    /\ rawData = "none"
    /\ pool = <<>>
    /\ calls = <<>>
    /\ answer = ""
    /\ vizSpec = Null
    /\ err = ""

(***************************************************************************)
(* The helpers applied to an enumerated payload.                           *)
(***************************************************************************)
HelperInit ==
    /\ payload \in Payloads
    /\ cleaned = Undefined
    /\ recleaned = Undefined
    /\ limited = Undefined
    /\ hpc = "raw"
    /\ ClientIdle
    /\ PipelineIdle

\* const cleaned = cleanForLLM(rawData)
Sanitize ==
    /\ hpc = "raw"
    /\ cleaned' = cleanForLLM(payload)
    /\ hpc' = "cleaned"
    /\ UNCHANGED <<payload, recleaned, limited>>
    /\ UNCHANGED <<pvars, cvars>>

\* the sanitizer applied to its own output
Resanitize ==
    /\ hpc = "cleaned"
    /\ recleaned' = cleanForLLM(cleaned)
    /\ hpc' = "recleaned"
    /\ UNCHANGED <<payload, cleaned, limited>>
    /\ UNCHANGED <<pvars, cvars>>

\* const limited = limitPayload(cleaned, 50)
Bound ==
    /\ hpc = "cleaned"
    /\ limited' = limitPayload(cleaned, MaxItems)
    /\ hpc' = "limited"
    /\ UNCHANGED <<payload, cleaned, recleaned>>
    /\ UNCHANGED <<pvars, cvars>>

\* the bounding applied to its own output
Rebound ==
    /\ hpc = "limited"
    /\ limited' = limitPayload(limited, MaxItems)
    /\ hpc' = "relimited"
    /\ UNCHANGED <<payload, cleaned, recleaned>>
    /\ UNCHANGED <<pvars, cvars>>

HelperNext == Sanitize \/ Resanitize \/ Bound \/ Rebound

HelperSpec == HelperInit /\ [][HelperNext]_vars

(***************************************************************************)
(* The shared client of the document store: getClient, getDb and query,    *)
(* called by concurrent callers.  A caller runs without interruption from  *)
(* one await on the network to the next; the awaits on the promises of     *)
(* getClient and getDb that are already settled are part of the same step. *)
(***************************************************************************)
\* query() is called: getDb returns the cached db, or getClient creates the
\* client and awaits connect(), or getClient returns the client that exists
QueryCalled ==
    \E c \in Callers :
        /\ cpc[c] = "idle"
        /\ IF db # "null"
           THEN /\ cpc' = [cpc EXCEPT ![c] = "aggregate"]
                /\ UNCHANGED <<client, conn, db, returned>>
           ELSE IF client = "null"
           THEN /\ client' = "set"
                /\ conn' = "pending"
                /\ cpc' = [cpc EXCEPT ![c] = "connect"]
                /\ UNCHANGED <<db, returned>>
           ELSE /\ returned' = [returned EXCEPT ![c] = conn]
                /\ db' = "set"
                /\ cpc' = [cpc EXCEPT ![c] = "aggregate"]
                /\ UNCHANGED <<client, conn>>
        /\ UNCHANGED <<hvars, pvars>>

\* await client.connect() resolved: getClient returns the client, getDb
\* stores the db and query issues the aggregation
ConnectResolves ==
    \E c \in Callers :
        /\ cpc[c] = "connect"
        /\ conn' = "established"
        /\ returned' = [returned EXCEPT ![c] = "established"]
        /\ db' = "set"
        /\ cpc' = [cpc EXCEPT ![c] = "aggregate"]
        /\ UNCHANGED client
        /\ UNCHANGED <<hvars, pvars>>

\* await client.connect() rejected: getClient, getDb and query reject; the
\* variable client keeps the client that failed to connect
ConnectRejects ==
    \E c \in Callers :
        /\ cpc[c] = "connect"
        /\ conn' = "failed"
        /\ cpc' = [cpc EXCEPT ![c] = "rejected"]
        /\ UNCHANGED <<client, db, returned>>
        /\ UNCHANGED <<hvars, pvars>>

\* await aggregationCursor.toArray() resolved: query returns the rows
AggregateReturns ==
    \E c \in Callers :
        /\ cpc[c] = "aggregate"
        /\ cpc' = [cpc EXCEPT ![c] = "done"]
        /\ UNCHANGED <<client, conn, db, returned>>
        /\ UNCHANGED <<hvars, pvars>>

\* await aggregationCursor.toArray() rejected: query logs and rethrows
AggregateThrows ==
    \E c \in Callers :
        /\ cpc[c] = "aggregate"
        /\ cpc' = [cpc EXCEPT ![c] = "failed"]
        /\ UNCHANGED <<client, conn, db, returned>>
        /\ UNCHANGED <<hvars, pvars>>

ClientInit == HelperIdle /\ PipelineIdle

ClientNext ==
    \/ QueryCalled
    \/ ConnectResolves
    \/ ConnectRejects
    \/ AggregateReturns
    \/ AggregateThrows

ClientSpec == ClientInit /\ [][ClientNext]_vars

(***************************************************************************)
(* POST: the start() callback of the response stream.  An action is the    *)
(* code that runs from the completion of one await to the next await.      *)
(***************************************************************************)
Goto(p, evs, cl, us, o, c, ui, st, rd) ==
    /\ pc' = p
    /\ events' = evs
    /\ calls' = cl
    /\ users' = us
    /\ out' = o
    /\ cur' = c
    /\ uidx' = ui
    /\ step' = st
    /\ rawData' = rd

\* the code runs on to the next await, or to close(), without throwing
Flow(p, evs, cl, us, o, c, ui, st, rd) ==
    /\ Goto(p, evs, cl, us, o, c, ui, st, rd)
    /\ err' = err

\* Catch closing the stream without the error event
Catch_Silent(why, evs, cl, us, o, rd) ==
    /\ err' = why
    /\ IF cancelled
       THEN Goto("rejected", evs, cl, us, o, cur, uidx, step, rd)
       ELSE Goto("closed", evs, cl, us, o, cur, uidx, step, rd)

\* the catch block: enqueue the error event and close; on a cancelled stream
\* the enqueue itself throws and start() rejects
Catch(why, evs, cl, us, o, rd) ==
    /\ err' = why
    /\ IF cancelled
       THEN Goto("rejected", evs, cl, us, o, cur, uidx, step, rd)
       ELSE Goto("closed", Append(evs, Ev("error", "Internal server error")),
                 cl, us, o, cur, uidx, step, rd)

\* controller.enqueue on a cancelled stream throws a TypeError
EnqueueThrows(evs, cl, us, o, rd) == Catch("TypeError", evs, cl, us, o, rd)

\* AfterFetch announcing the explanation before the fetch result
AfterFetch_Swapped(evs, cl, us, o, rd) ==
    IF cancelled
    THEN EnqueueThrows(evs, cl, us, o, rd)
    ELSE Flow("explain",
              evs \o <<Ev("explaining", "asking"), Ev("fetched", "fetched")>>,
              Append(cl, Gemini("explain")), us, o, cur, uidx, step, rd)

\* from the "fetched" event to the explanation call
AfterFetch(evs, cl, us, o, rd) ==
    IF cancelled
    THEN EnqueueThrows(evs, cl, us, o, rd)
    ELSE Flow("explain",
              evs \o <<Ev("fetched", "fetched"), Ev("explaining", "asking")>>,
              Append(cl, Gemini("explain")), us, o, cur, uidx, step, rd)

ProfileIntents == {"student-profile", "student-performance", "interview-history",
                   "course-progress", "candidate-recommendation"}
FuzzyIntents == {"student-profile", "student-performance", "interview-history"}
IntentIn(ci, S) == ci.intent.t = "str" /\ ci.intent.s \in S

\* from the second "fetching" event to the first query of the fetch stage
AfterFuzzy(ci, evs, cl, us) ==
    IF cancelled
    THEN EnqueueThrows(evs, cl, us, out, rawData)
    ELSE LET evs2 == Append(evs, Ev("fetching", "found")) IN
         IF IntentIn(ci, ProfileIntents)
         THEN IF Len(us) > 0
              THEN Flow("profile", evs2, Append(cl, Query(FetchSteps[1])), us,
                        <<>>, EmptyProfile(us[1]), 1, 1, rawData)
              ELSE IF IntentIn(ci, {"candidate-recommendation"})
              THEN Flow("pool", evs2, Append(cl, Query("users")), us, out, cur,
                        uidx, step, rawData)
              ELSE AfterFetch(evs2, cl, us, out, "empty")
         ELSE IF IntentIn(ci, {"leaderboard"})
         THEN Flow("leaderboard", evs2, Append(cl, Query("users")), us, out, cur,
                   uidx, step, rawData)
         ELSE AfterFetch(evs2, cl, us, out, "note")

\* the name-substring fallback of the endpoint
AfterResolve(ci, evs, cl, us) ==
    IF /\ Len(us) = 0
       /\ IntentIn(ci, FuzzyIntents)
       /\ HasName(ci)
       /\ Len(Trim(CharsOf(ci.candidateName.s))) > 1
    THEN IF RegExpThrows(FuzzyPattern(ci))
         THEN Catch("SyntaxError", evs, cl, us, out, rawData)
         ELSE Flow("fuzzy", evs, Append(cl, Query("users")), us, out, cur, uidx,
                   step, rawData)
    ELSE AfterFuzzy(ci, evs, cl, us)

PipelineInit ==
    /\ HelperIdle
    /\ pc = "request"
    /\ body \in Bodies
    /\ events = <<>>
    /\ cancelled = FALSE
    /\ rawText = <<>>
    /\ classified = GenericIntent
    /\ users = <<>>
    /\ out = <<>>
    /\ cur = EmptyProfile(1)
    /\ uidx = 0
    /\ step = 0
    /\ rawData = "none"
    /\ pool = <<>>
    /\ calls = <<>>
    /\ answer = ""
    /\ vizSpec = Null
    /\ err = ""

\* Start issuing the classification call without the understanding event
Start_Unannounced ==
    /\ pc = "request"
    /\ IF Falsy(body.question) \/ body.question.t # "str"
       THEN IF cancelled
            THEN EnqueueThrows(events, calls, users, out, rawData)
            ELSE Flow("closed", <<Ev("error", "No question provided.")>>, calls,
                      users, out, cur, uidx, step, rawData)
       ELSE Flow("classify", <<>>, <<Gemini("classify")>>, users, out, cur, uidx,
                 step, rawData)
    /\ UNCHANGED <<body, pool, cancelled, rawText, classified, answer, vizSpec>>
    /\ UNCHANGED <<hvars, cvars>>

\* req.json() settled: the question check, then the classification call
Start ==
    /\ pc = "request"
    /\ IF Falsy(body.question) \/ body.question.t # "str"
       THEN IF cancelled
            THEN EnqueueThrows(events, calls, users, out, rawData)
            ELSE Flow("closed", <<Ev("error", "No question provided.")>>, calls,
                      users, out, cur, uidx, step, rawData)
       ELSE IF cancelled
            THEN EnqueueThrows(events, calls, users, out, rawData)
            ELSE Flow("classify", <<Ev("understanding", "classifying")>>,
                      <<Gemini("classify")>>, users, out, cur, uidx, step, rawData)
    /\ UNCHANGED <<body, pool, cancelled, rawText, classified, answer, vizSpec>>
    /\ UNCHANGED <<hvars, cvars>>

\* classifyQuestion returned, the backend having answered one of texts;
\* resolveUsers issues its first query
ClassifyReturnOf(texts) ==
    /\ pc = "classify"
    /\ \E text \in texts :
        LET ci == classifyQuestion(text) IN
        /\ rawText' = text
        /\ classified' = ci
        /\ IF cancelled
           THEN EnqueueThrows(events, calls, users, out, rawData)
           ELSE LET evs == Append(events, Ev("fetching", "resolving")) IN
                IF HasName(ci) \/ HasIdentifier(ci)
                THEN Flow("resolve_users", evs, Append(calls, Query("users")),
                          users, out, cur, uidx, step, rawData)
                ELSE AfterResolve(ci, evs, calls, <<>>)
    /\ UNCHANGED <<body, pool, cancelled, answer, vizSpec>>
    /\ UNCHANGED <<hvars, cvars>>

ClassifyReturn == ClassifyReturnOf(BackendTexts)

\* resolveUsers: the users query by identifier and name returned
ResolveUsersReturn ==
    /\ pc = "resolve_users"
    /\ LET rows == UsersByClauses(classified, MaxHits) IN
       IF Len(rows) > 0
       THEN AfterResolve(classified, events, calls, rows)
       ELSE Flow("resolve_resumes", events, Append(calls, Query("trailresumes")),
                 users, out, cur, uidx, step, rawData)
    /\ UNCHANGED <<body, pool, cancelled, rawText, classified, answer, vizSpec>>
    /\ UNCHANGED <<hvars, cvars>>

\* resolveUsers: the trailresumes query of the fallback returned
ResolveResumesReturn ==
    /\ pc = "resolve_resumes"
    /\ LET ids == CollectedIds(ResumesByClauses(classified)) IN
       IF Len(ids) > 0
       THEN Flow("resolve_ids", events, Append(calls, Query("users")), users, out,
                 cur, uidx, step, rawData)
       ELSE AfterResolve(classified, events, calls, <<>>)
    /\ UNCHANGED <<body, pool, cancelled, rawText, classified, answer, vizSpec>>
    /\ UNCHANGED <<hvars, cvars>>

\* resolveUsers: the users query by collected ids returned
ResolveIdsReturn ==
    /\ pc = "resolve_ids"
    /\ AfterResolve(classified, events, calls,
                    UsersByIds(CollectedIds(ResumesByClauses(classified)), MaxHits))
    /\ UNCHANGED <<body, pool, cancelled, rawText, classified, answer, vizSpec>>
    /\ UNCHANGED <<hvars, cvars>>

\* the users query of the name-substring fallback returned
FuzzyReturn ==
    /\ pc = "fuzzy"
    /\ AfterFuzzy(classified, events, calls, UsersByFuzzyName(classified))
    /\ UNCHANGED <<body, pool, cancelled, rawText, classified, answer, vizSpec>>
    /\ UNCHANGED <<hvars, cvars>>

\* fetchFullProfileForUsers: one of the nine queries for users[uidx] returned;
\* the next query is issued, or the profile is pushed and the hydrator runs
ProfileQueryReturn ==
    /\ pc = "profile"
    /\ LET rows == FetchRows(FetchSteps[step], users[uidx],
                             cur.rows["appliedcandidates"])
           cur1 == [cur EXCEPT !.rows[FetchSteps[step]] = rows]
           out1 == Append(out, cur1)
       IN  IF step < Len(FetchSteps)
           THEN Flow("profile", events, Append(calls, Query(FetchSteps[step + 1])),
                     users, out, cur1, uidx, step + 1, rawData)
           ELSE IF uidx < Len(users)
           THEN Flow("profile", events, Append(calls, Query(FetchSteps[1])), users,
                     out1, EmptyProfile(users[uidx + 1]), uidx + 1, 1, rawData)
           ELSE IF QuestionIds(out1) = {}
           THEN AfterFetch(events, calls, users, out1, "profiles")
           ELSE Flow("hydrate", events, Append(calls, Query("interviewquestions")),
                     users, out1, cur1, uidx, step, rawData)
    /\ UNCHANGED <<body, pool, cancelled, rawText, classified, answer, vizSpec>>
    /\ UNCHANGED <<hvars, cvars>>

\* HydrateReturn looking the typed and the plain ids up in two queries
HydrateReturn_PerForm ==
    /\ pc = "hydrate"
    /\ IF Cardinality({i \in 1..Len(calls) : calls[i] = Query("interviewquestions")}) < 2
       THEN Flow("hydrate", events, Append(calls, Query("interviewquestions")),
                 users, out, cur, uidx, step, rawData)
       ELSE AfterFetch(events, calls, users,
                       Hydrated(out, QuestionsLookup(QuestionIds(out))), "profiles")
    /\ UNCHANGED <<body, pool, cancelled, rawText, classified, answer, vizSpec>>
    /\ UNCHANGED <<hvars, cvars>>

\* hydrateInterviewQuestionsForProfiles: the batched lookup returned
HydrateReturn ==
    /\ pc = "hydrate"
    /\ AfterFetch(events, calls, users,
                  Hydrated(out, QuestionsLookup(QuestionIds(out))), "profiles")
    /\ UNCHANGED <<body, pool, cancelled, rawText, classified, answer, vizSpec>>
    /\ UNCHANGED <<hvars, cvars>>

\* PoolReturn with the sorted pool cut to topK rows
PoolReturn_TopK ==
    /\ pc = "pool"
    /\ pool' \in {Limit(p, PoolTopK(classified)) :
                    p \in CandidatePools(PoolTopK(classified))}
    /\ AfterFetch(events, calls, users, out, "pool")
    /\ UNCHANGED <<body, cancelled, rawText, classified, answer, vizSpec>>
    /\ UNCHANGED <<hvars, cvars>>

\* fetchCandidatePoolForJob returned
PoolReturn ==
    /\ pc = "pool"
    /\ pool' \in CandidatePools(PoolTopK(classified))
    /\ AfterFetch(events, calls, users, out, "pool")
    /\ UNCHANGED <<body, cancelled, rawText, classified, answer, vizSpec>>
    /\ UNCHANGED <<hvars, cvars>>

\* fetchLeaderboard returned
LeaderboardReturn ==
    /\ pc = "leaderboard"
    /\ AfterFetch(events, calls, users, out, "leaderboard")
    /\ UNCHANGED <<body, pool, cancelled, rawText, classified, answer, vizSpec>>
    /\ UNCHANGED <<hvars, cvars>>

\* Done with a close() that throws after the done event went out
Done_CloseThrows(ans, evs, cl) ==
    IF cancelled
    THEN EnqueueThrows(evs, cl, users, out, rawData)
    ELSE Catch("TypeError", Append(evs, Ev("done", ans)), cl, users, out, rawData)

\* the "done" event and close()
Done(ans, evs, cl) ==
    IF cancelled
    THEN EnqueueThrows(evs, cl, users, out, rawData)
    ELSE Flow("closed", Append(evs, Ev("done", ans)), cl, users, out, cur, uidx,
              step, rawData)

\* ExplainReturn asking for the visualization whatever the visual mode
ExplainReturn_AlwaysViz ==
    /\ pc = "explain"
    /\ \E text \in AnswerTexts :
        /\ answer' = (IF text = "" THEN FallbackAnswer ELSE text)
        /\ Flow("viz", events, Append(calls, Gemini("viz")), users, out, cur,
                uidx, step, rawData)
    /\ UNCHANGED <<body, pool, cancelled, rawText, classified, vizSpec>>
    /\ UNCHANGED <<hvars, cvars>>

\* the explanation call returned
ExplainReturn ==
    /\ pc = "explain"
    /\ \E text \in AnswerTexts :
        LET ans == IF text = "" THEN FallbackAnswer ELSE text IN
        /\ answer' = ans
        /\ IF body.visualMode
           THEN Flow("viz", events, Append(calls, Gemini("viz")), users, out, cur,
                     uidx, step, rawData)
           ELSE Done(ans, events, calls)
    /\ UNCHANGED <<body, pool, cancelled, rawText, classified, vizSpec>>
    /\ UNCHANGED <<hvars, cvars>>

\* the visualization call returned
VizReturn ==
    /\ pc = "viz"
    /\ \E text \in VizTexts : vizSpec' = ParseViz(text)
    /\ Done(answer, events, calls)
    /\ UNCHANGED <<body, pool, cancelled, rawText, classified, answer>>
    /\ UNCHANGED <<hvars, cvars>>

\* the awaits on a collaborator: askGemini and query
Awaits == {"classify", "resolve_users", "resolve_resumes", "resolve_ids", "fuzzy",
           "profile", "hydrate", "pool", "leaderboard", "explain", "viz"}

\* CallFails with a failed related-record fetch answered by the fallback
\* string instead of the error event
CallFails_Recovered ==
    /\ pc \in Awaits
    /\ IF pc = "profile"
       THEN /\ err' = "rejected call"
            /\ Goto("closed", Append(events, Ev("done", FallbackAnswer)), calls,
                    users, out, cur, uidx, step, rawData)
       ELSE Catch("rejected call", events, calls, users, out, rawData)
    /\ UNCHANGED <<body, pool, cancelled, rawText, classified, answer, vizSpec>>
    /\ UNCHANGED <<hvars, cvars>>

\* the awaited call rejects: control reaches the catch block of start()
CallFails ==
    /\ pc \in Awaits
    /\ Catch("rejected call", events, calls, users, out, rawData)
    /\ UNCHANGED <<body, pool, cancelled, rawText, classified, answer, vizSpec>>
    /\ UNCHANGED <<hvars, cvars>>

\* the caller goes away while the handler is suspended: the stream is
\* cancelled (start() registers no cancel callback)
Disconnect ==
    /\ pc \in Awaits \cup {"request"}
    /\ ~cancelled
    /\ cancelled' = TRUE
    /\ UNCHANGED <<pc, body, events, rawText, classified, users, out, cur, uidx,
                   step, rawData, pool, calls, answer, vizSpec, err>>
    /\ UNCHANGED <<hvars, cvars>>

Next ==
    \/ Start
    \/ ClassifyReturn
    \/ ResolveUsersReturn
    \/ ResolveResumesReturn
    \/ ResolveIdsReturn
    \/ FuzzyReturn
    \/ ProfileQueryReturn
    \/ HydrateReturn
    \/ PoolReturn
    \/ LeaderboardReturn
    \/ ExplainReturn
    \/ VizReturn
    \/ CallFails
    \/ Disconnect

Spec == PipelineInit /\ [][Next]_vars

(***************************************************************************)
(* The same handler under fairness: every awaited call eventually returns  *)
(* or fails.  The classification answers one text per path through the     *)
(* handler.                                                                *)
(***************************************************************************)
LiveTexts ==
    { ObjectText("student-profile", "ann", Absent),
      ObjectText("interview-history", "zed", Absent),
      ObjectText("student-performance", "a.b", Absent),
      ObjectText("student-profile", "w(", Absent),
      ObjectText("course-progress", Absent, Absent),
      ObjectText("candidate-recommendation", Absent, Absent),
      ObjectText("leaderboard", Absent, Absent),
      <<Tok("prose")>> }

LiveClassifyReturn == ClassifyReturnOf(LiveTexts)

Settles ==
    \/ Start
    \/ LiveClassifyReturn
    \/ ResolveUsersReturn
    \/ ResolveResumesReturn
    \/ ResolveIdsReturn
    \/ FuzzyReturn
    \/ ProfileQueryReturn
    \/ HydrateReturn
    \/ PoolReturn
    \/ LeaderboardReturn
    \/ ExplainReturn
    \/ VizReturn
    \/ CallFails

LiveNext == Settles \/ Disconnect

LiveSpec == PipelineInit /\ [][LiveNext]_vars /\ WF_vars(Settles)

(***************************************************************************)
(* Properties.                                                             *)
(***************************************************************************)
Stages == [i \in 1..Len(events) |-> events[i].stage]
Terminal == {"done", "error"}
TerminalLast == Len(events) > 0 /\ events[Len(events)].stage \in Terminal
Prefix(seq, k) == SubSeq(seq, 1, k)
\* the resolution step is over: the "Found n users" event is out
Resolved == \E i \in 1..Len(events) : events[i] = Ev("fetching", "found")
LookupCount ==
    Cardinality({i \in 1..Len(calls) : calls[i] = Query("interviewquestions")})

\* C1 as stated: the stages are a prefix of understanding, fetching,
\* explaining, possibly ended by done or error; each stage at most once and
\* none outside the five names
SpecStages == <<"understanding", "fetching", "explaining">>
CodeStages == <<"understanding", "fetching", "fetching", "fetched", "explaining">>
C2_SingleTerminal ==
    \A i \in 1..Len(events) : events[i].stage \in Terminal => i = Len(events)
\* an answer was computed, a later call failed: the stream ends in error alone
C2_Witness ==
    /\ pc = "closed"
    /\ answer # ""
    /\ events[Len(events)].stage = "error"

\* C3: while the caller stays connected the handler never ends without a
\* terminal event as the last event, and (every call returning or failing)
\* the stream is eventually closed, unless the caller cancelled it first
C3_TerminalThenClosed ==
    /\ [](pc \in {"closed", "rejected"} /\ ~cancelled => TerminalLast)
    /\ <>(cancelled \/ (pc = "closed" /\ TerminalLast))
C3_Witness ==
    /\ pc = "closed"
    /\ ~cancelled
    /\ err = "rejected call"
    /\ events[Len(events)] = Ev("error", "Internal server error")

\* C4 as stated: the intent of the ClassifiedIntent is one of the seven intents
C4_IntentInFixedSet ==
    classified.intent.t = "str" /\ classified.intent.s \in IntentType

\* C5 as stated: a request whose aggregation produced profiles makes exactly
\* one lookup on interviewquestions
C5_ExactlyOneLookup ==
    rawData = "profiles" /\ Len(out) >= 1 => LookupCount = 1

\* C5 amended: at most one lookup per request whatever the number of
\* profiles; exactly one when the profiles hold a question id, none otherwise
C5_AtMostOneLookup ==
    /\ LookupCount <= 1
    /\ rawData = "profiles" =>
          LookupCount = (IF QuestionIds(out) = {} THEN 0 ELSE 1)
C5_Witness ==
    /\ rawData = "profiles"
    /\ Len(out) >= 2
    /\ LookupCount = 1

RECURSIVE ArraysWithin(_, _)
ArraysWithin(v, maxItems) ==
    /\ v.t = "arr" => Len(v.c) <= maxItems
    /\ \A i \in 1..Len(v.c) : ArraysWithin(v.c[i].v, maxItems)

\* C6 as stated: after limitPayload every array of the payload, nested ones
\* included, has at most maxItems items
C6_AllArraysBounded ==
    hpc = "limited" => ArraysWithin(limited, MaxItems)

\* C7 as stated: cleanForLLM applied to its own result changes nothing
C7_SanitizeIdempotent ==
    hpc = "recleaned" => recleaned = cleaned

\* C8 as stated: the characters of the name never make the pattern
\* construction raise
C8_NameNeverRaises == err # "SyntaxError"

RECURSIVE NoDeniedKeys(_)
NoDeniedKeys(v) ==
    \A i \in 1..Len(v.c) :
        /\ v.t = "obj" => v.c[i].k \notin PasswordKeys \cup HeavyKeys
        /\ NoDeniedKeys(v.c[i].v)

\* C9 as stated: no object of the sanitized payload has a denylisted key
C9_NoDeniedKey ==
    hpc = "cleaned" => NoDeniedKeys(cleaned)

IdentifierHit(u) ==
    /\ HasIdentifier(classified)
    /\ classified.candidateEmailOrPhone.s \in {Users[u].email, Users[u].phoneNumber}
NameHit(u) ==
    /\ HasName(classified)
    /\ \E f \in {Users[u].name, Users[u].firstname, Users[u].lastname} :
          FieldMatches(NamePattern(classified), f)
AllUsers == 1..Len(Users)

\* C10 as stated: when a user matches the identifier, only users matching
\* the identifier are returned
C10_IdentifierFirst ==
    Resolved /\ (\E u \in AllUsers : IdentifierHit(u))
        => \A i \in 1..Len(users) : IdentifierHit(users[i])

\* C10 amended: the identifier and the name clauses are one query; when a
\* user matches either, exactly the users matching either are returned (up
\* to maxHits), and the trailresumes fallback runs only when none does
C10_UnionThenFallback ==
    /\ Resolved /\ (\E u \in AllUsers : IdentifierHit(u) \/ NameHit(u))
          => /\ Range(users) \subseteq {u \in AllUsers : IdentifierHit(u) \/ NameHit(u)}
             /\ Len(users) = Cardinality(Range(users))
             /\ Len(users) = IF Cardinality({u \in AllUsers : IdentifierHit(u) \/ NameHit(u)}) < MaxHits
                             THEN Cardinality({u \in AllUsers : IdentifierHit(u) \/ NameHit(u)})
                             ELSE MaxHits
    /\ pc \in {"resolve_resumes", "resolve_ids"}
          => ~\E u \in AllUsers : IdentifierHit(u) \/ NameHit(u)
C10_Witness ==
    /\ Resolved
    /\ \E i \in 1..Len(users) : IdentifierHit(users[i])
    /\ \E i \in 1..Len(users) : ~IdentifierHit(users[i]) /\ NameHit(users[i])

\* the trailresumes fallback of resolveUsers asked the users collection for
\* the collected ids
FallbackAsked ==
    /\ Len(calls) >= 4
    /\ calls[3] = Query("trailresumes")
    /\ calls[4] = Query("users")
\* the name-substring query of the endpoint followed the fallback
FuzzyAsked ==
    /\ IntentIn(classified, FuzzyIntents)
    /\ Len(calls) >= 5
    /\ calls[5] = Query("users")
\* users holds what the fallback of resolveUsers returned
FallbackReturned ==
    FallbackAsked /\ (pc = "fuzzy" \/ (Resolved /\ ~FuzzyAsked))
\* the ids collected from the trailresumes rows of the request
FallbackIds == Range(CollectedIds(ResumesByClauses(classified)))

\* C11 as stated: every user whose _id, typed or plain string, equals an id
\* collected from trailresumes is returned by the fallback of resolveUsers
C11_BothFormsMatched ==
    FallbackReturned =>
        \A u \in AllUsers : Users[u]._id.val \in FallbackIds => u \in Range(users)

\* the hydrator made its lookup and attached the details
HydratorRan ==
    /\ rawData = "profiles"
    /\ LookupCount = 1
    /\ \A i \in 1..Len(out) : out[i].hydrated
\* the ids under which a question document is known
QuestionKeys(q) == {InterviewQuestions[q]._id.val, InterviewQuestions[q].questionId} \ {""}

\* C12 as stated: every question whose _id or questionId is a collected id is
\* returned by the batched lookup and is in the map under each of its ids
C12_LookupCoversIds ==
    HydratorRan =>
        \A q \in 1..Len(InterviewQuestions) :
            QuestionKeys(q) \cap QuestionIds(out) # {}
                => /\ q \in Range(QuestionsLookup(QuestionIds(out)))
                   /\ QuestionKeys(q) \subseteq
                        ByKeyDomain(QuestionsLookup(QuestionIds(out)))

\* the last external call issued is the call to target, and it was rejected
LastCallFailed(target) ==
    /\ err = "rejected call"
    /\ Len(calls) > 0
    /\ calls[Len(calls)] = target
DoneWith(ans) == Len(events) > 0 /\ events[Len(events)] = Ev("done", ans)

\* C13 as stated: when the explanation call fails, or returns no text, the
\* stream of a caller that stays connected ends with done and the fallback
\* answer
C13_ExplainFallback ==
    /\ pc = "closed" /\ LastCallFailed(Gemini("explain"))
          => DoneWith(FallbackAnswer)
    /\ pc = "closed" /\ answer = FallbackAnswer /\ ~body.visualMode
          => DoneWith(FallbackAnswer)

\* C14 as stated: once the visualization call was issued, the stream of a
\* caller that stays connected ends with done and the computed answer, the
\* vizSpec being null when the call failed
C14_VizNeverFails ==
    pc = "closed" /\ Gemini("viz") \in Range(calls)
        => /\ DoneWith(answer)
           /\ LastCallFailed(Gemini("viz")) => vizSpec = Null

\* a query of fetchFullProfileForUsers (one of the nine related-record
\* queries of an entity, or the hydrator's lookup) was rejected
AggregationFailed ==
    /\ uidx >= 1
    /\ \/ LastCallFailed(Query(FetchSteps[step]))
       \/ LastCallFailed(Query("interviewquestions"))
StageCount(stage) == Cardinality({i \in 1..Len(events) : events[i].stage = stage})

\* C15: a failed related-record fetch is fatal for the request: no rawData
\* is produced, no explanation call is made, no done event is sent, and the
\* stream of a caller that stays connected is closed with exactly one error
\* event as its last event
C15_FetchFailureFatal ==
    AggregationFailed =>
        /\ rawData = "none"
        /\ Gemini("explain") \notin Range(calls)
        /\ StageCount("done") = 0
        /\ pc \in {"closed", "rejected"}
        /\ ~cancelled => /\ pc = "closed"
                         /\ StageCount("error") = 1
                         /\ events[Len(events)].stage = "error"
\* the fetch for the second entity failed after the first profile was built
C15_Witness ==
    /\ AggregationFailed
    /\ ~cancelled
    /\ uidx = 2
    /\ Len(out) = 1
    /\ pc = "closed"

\* the calls to the generative backend, in the order they were issued
GeminiCalls ==
    LET F[i \in 0..Len(calls)] ==
            IF i = 0 THEN <<>>
            ELSE IF calls[i].kind = "gemini" THEN Append(F[i - 1], calls[i].target)
                 ELSE F[i - 1]
    IN  F[Len(calls)]
DoneReached == Len(events) > 0 /\ events[Len(events)].stage = "done"
GeminiOrder == <<"classify", "explain", "viz">>

\* C16: a request that reaches done has called the backend for the
\* classification and the explanation, in that order, and then for the
\* visualization exactly when visual mode is on; no request makes more than
\* these calls or repeats one, and the visualization call needs visual mode
C16_BackendCalls ==
    /\ DoneReached =>
          GeminiCalls = Prefix(GeminiOrder, IF body.visualMode THEN 3 ELSE 2)
    /\ \E k \in 0..3 : GeminiCalls = Prefix(GeminiOrder, k)
    /\ "viz" \in Range(GeminiCalls) => body.visualMode
\* done after the three calls, document-store queries in between
C16_Witness ==
    /\ DoneReached
    /\ body.visualMode
    /\ GeminiCalls = GeminiOrder
    /\ Len(calls) > 3

\* the candidate-pool fetch was issued
PoolAsked == pc = "pool" \/ rawData = "pool"

\* C17 as stated: the candidate pool is fetched only for the recommendation
\* intent and only when the classification names no candidate
C17_PoolOnlyUnnamed ==
    PoolAsked =>
        /\ IntentIn(classified, {"candidate-recommendation"})
        /\ ~HasName(classified)
        /\ ~HasIdentifier(classified)

\* the maxItems POST passes to limitPayload
PayloadMaxItems == 50
\* the pool as the explanation prompt gets it: limitPayload slices the array
ExplainedPool == Limit(pool, PayloadMaxItems)
Min(a, b) == IF a < b THEN a ELSE b
Max(a, b) == IF a > b THEN a ELSE b

StageOfCall(call) ==
    IF call.kind = "query" THEN "fetching"
    ELSE IF call.target = "classify" THEN "understanding"
    ELSE "explaining"

\* C19: whenever an external call is outstanding, the event of its stage has
\* been sent and is the latest event of the stream
C19_EventBeforeCall ==
    pc \in Awaits =>
        /\ Len(events) > 0
        /\ Len(calls) > 0
        /\ events[Len(events)].stage = StageOfCall(calls[Len(calls)])
\* the explanation call is outstanding after the queries of a profile
C19_Witness ==
    /\ pc = "explain"
    /\ rawData = "profiles"
    /\ events[Len(events)].stage = "explaining"
    /\ calls[Len(calls)] = Gemini("explain")

\* C20 as stated: once the caller has disconnected, no further external call
\* is started and no event is replayed
C20_NoCallAfterDisconnect ==
    [][cancelled => calls' = calls /\ events' = events]_vars

\* text contains the characters of name, taken literally and ignoring case
ContainsLiterally(name, text) ==
    \E off \in 0..Len(text) :
        /\ off + Len(name) <= Len(text)
        /\ \A i \in 1..Len(name) : Lower(name[i]) = Lower(text[off + i])
\* user u has a name field that contains candidateName literally
LiteralNameHit(u) ==
    /\ HasName(classified)
    /\ \E f \in {Users[u].name, Users[u].firstname, Users[u].lastname} :
          f # "" /\ ContainsLiterally(CharsOf(classified.candidateName.s), CharsOf(f))
\* users is what the first users query of resolveUsers returned
ClausesReturned ==
    /\ Resolved
    /\ users # <<>>
    /\ Len(calls) >= 2
    /\ calls[2] = Query("users")
    /\ ~FallbackAsked

\* C21 as stated: a user whose name contains candidateName literally, as a
\* case-insensitive substring, is matched by the name clause of resolveUsers
C21_NameTakenLiterally ==
    /\ pc = "resolve_resumes" => ~\E u \in AllUsers : LiteralNameHit(u)
    /\ ClausesReturned /\ Len(users) < MaxHits
          => \A u \in AllUsers : LiteralNameHit(u) => u \in Range(users)

\* the handler is over, resolution was attempted and left no user, and no
\* external call was rejected
MissedAndSettled ==
    /\ pc = "closed"
    /\ StageCount("fetching") >= 1
    /\ users = <<>>
    /\ err # "rejected call"

\* C22 as stated: a request whose resolution finds nobody, and whose calls
\* all succeed, ends with a done event carrying a non-empty answer
C22_MissIsNotError ==
    MissedAndSettled =>
        /\ DoneReached
        /\ events[Len(events)].text # ""

\* the classification call returned and rawText is its text
ClassifyReturned ==
    /\ pc \notin {"request", "classify"}
    /\ Len(calls) >= 1
    /\ ~(Len(calls) = 1 /\ LastCallFailed(Gemini("classify")))
\* what the Safe Parser makes of the text the backend returned
ParsedText == safeJSONParse(IF rawText = <<>> THEN <<Tok("{"), Tok("}")>> ELSE rawText)
\* the text does not parse, or parses to an object without an intent
NoIntentParsed ==
    \/ ParsedText = Null
    \/ ParsedText.t = "obj" /\ ~HasKey(ParsedText, "intent")

\* C23: a classification text that does not parse, or has no intent, gives
\* exactly the generic intent without slots, and the request goes on to the
\* fetching stage (unless the caller has gone): no error comes from it
C23_ParseFailureIsGeneric ==
    ClassifyReturned /\ NoIntentParsed =>
        /\ classified = GenericIntent
        /\ err # "SyntaxError"
        /\ StageCount("fetching") >= 1 \/ cancelled
        /\ StageCount("error") >= 1 => err = "rejected call"
\* an unparsable text of several tokens, the request on its way
C23_Witness ==
    /\ ClassifyReturned
    /\ ParsedText = Null
    /\ Len(rawText) > 1
    /\ classified = GenericIntent
    /\ pc = "explain"
    /\ StageCount("fetching") = 2

\* the $limit of the query of each step of fetchFullProfileForUsers
StepCap(st) ==
    CASE st \in {"trailresumes", "resumewithais"} -> ResumeLimit
      [] st = "jrsattempts" -> JrsLimit
      [] st = "interview_results" -> InterviewResultLimit
      [] st = "appliedcandidates" -> ApplicationLimit
      [] st = "interviews" -> InterviewLimit
      [] st = "practicehistories" -> PracticeLimit
      [] st = "examhistories" -> ExamLimit
      [] st = "progresstracks" -> ProgressLimit
WithinCaps(profile) ==
    \A st \in Range(FetchSteps) : Len(profile.rows[st]) <= StepCap(st)

\* C24: the profiles are one per resolved user, in the users' order, and
\* every sub-collection of every profile, finished or under construction,
\* holds at most the $limit of its query
C24_OneProfilePerEntity ==
    /\ \A i \in 1..Len(out) : WithinCaps(out[i])
    /\ WithinCaps(cur)
    /\ Len(out) <= Len(users)
    /\ \A i \in 1..Len(out) : out[i].user = users[i]
    /\ rawData = "profiles" => Len(out) = Len(users)
\* two profiles, one of them with its resumes cut at the cap
C24_Witness ==
    /\ rawData = "profiles"
    /\ Len(out) = 2
    /\ \E i \in 1..2 :
          /\ Len(out[i].rows["trailresumes"]) = ResumeLimit
          /\ Len(TrailResumes) > ResumeLimit


\* C25: the entities handed to the aggregator are at most maxHits (10) and no
\* two of them have the same primary identifier, whether the clauses of
\* resolveUsers, its resume fallback or the endpoint's name-substring fallback
\* produced them
C25_EntitiesBoundedDistinct ==
    /\ Len(users) <= MaxHits
    /\ \A i, j \in 1..Len(users) : i # j => Users[users[i]]._id # Users[users[j]]._id
\* the substring fallback met more users than maxHits and the aggregator was
\* given the first maxHits of them
C25_Witness ==
    /\ pc = "profile"
    /\ classified.candidateName.s = "dd e f"
    /\ Len(users) = MaxHits
    /\ Len(Namesakes) > MaxHits


\* C26: bounding is applied to the sanitized payload only, and bounding a
\* bounded payload again with the same maximum changes nothing
C26_BoundIdempotent ==
    [][/\ hpc' = "limited" => hpc = "cleaned" /\ limited' = limitPayload(cleanForLLM(payload), MaxItems)
       /\ hpc' = "relimited" => hpc = "limited" /\ limited' = limited]_vars
\* a payload in which a list was cut has been bounded a second time
C26_Witness ==
    /\ hpc = "relimited"
    /\ limited # cleaned


\* the body could not be parsed, or its question is missing, empty or not a
\* string
NoQuestion == ~body.parses \/ body.question.t # "str" \/ body.question.s = ""
\* C27: for a request without a usable question no backend call and no
\* document-store query is made, and the stream of a connected caller is
\* exactly the event error "No question provided." followed by close; a
\* caller that left before the body was read receives nothing
C27_NoQuestionRejected ==
    NoQuestion =>
        /\ calls = <<>>
        /\ pc \in {"request", "closed", "rejected"}
        /\ pc = "request" => events = <<>>
        /\ pc = "closed" => events = <<Ev("error", "No question provided.")>>
        /\ pc = "rejected" => cancelled /\ events = <<>>
\* a connected caller whose question is the empty string was answered
C27_Witness ==
    /\ body.parses
    /\ body.question = Str("")
    /\ pc = "closed"
    /\ ~cancelled
    /\ events = <<Ev("error", "No question provided.")>>


\* the resume d belongs to user u: it carries the user's id, or the user's
\* email
ResumeLinked(d, u) ==
    \/ d.user.form # "none" /\ d.user.val = UidStr(u)
    \/ Users[u].email # "" /\ Users[u].email \in {d.contactEmail, d.userEmail, d.email}
\* the interview iv is referenced by the interviewId of one of the applications
InterviewLinked(iv, applications) ==
    \E i \in 1..Len(applications) :
        LET id == Applications[applications[i]].interviewId.val IN
        id # "" /\ (iv._id.val = id \/ iv.interview_id = id)
\* C28: every resume in a profile matches the profile's user by id or email
\* and every interview in it is referenced by one of that user's
\* applications; no sub-collection holds records of other subjects
C28_RecordsLinkedToEntity ==
    \A i \in 1..Len(out) :
        /\ \A r \in Range(out[i].rows["trailresumes"]) :
              ResumeLinked(TrailResumes[r], out[i].user)
        /\ \A r \in Range(out[i].rows["resumewithais"]) :
              ResumeLinked(ResumeWithAis[r], out[i].user)
        /\ \A r \in Range(out[i].rows["interviews"]) :
              InterviewLinked(Interviews[r], out[i].rows["appliedcandidates"])


\* C29: a question reference of any form (plain string, _id, questionId or
\* id) that gave an id to the batched lookup, and for whose id the lookup
\* returned a question, has that question in the interviewQuestionDetails of
\* its interview
C29_BothPassesSameForms ==
    HydratorRan =>
        \A i \in 1..Len(out) :
            \A j \in 1..Len(out[i].rows["interviews"]) :
                LET refs == Interviews[out[i].rows["interviews"][j]].interviewquestions IN
                \A k \in 1..Len(refs) :
                    \A q \in Range(QuestionsLookup(QuestionIds(out))) :
                        (RefId(refs[k]) # {} /\ refs[k].val \in QuestionKeys(q))
                            => q \in Range(out[i].interviewQuestionDetails[j])


\* C30: getClient hands the shared client to a caller only after connect()
\* has completed successfully, whatever the interleaving of the callers
C30_ClientReturnedConnected ==
    \A c \in Callers : returned[c] \in {"none", "established"}

====
